---- MODULE Spec2Model ----
(***************************************************************************)
(* Model of the game services of the visual novel platform:                *)
(* GameService (game.py), the Database methods they call (database.py)     *)
(* and the API handlers that drive them (app.py).                          *)
(*                                                                         *)
(* Every Database method opens its own connection and commits on exit     *)
(* (Database.get_connection), so one Database call is one atomic step and  *)
(* request handlers interleave between Database calls.  Story content      *)
(* (stories, chapters, scenes, choices) is not written by any game         *)
(* operation; it is a fixed set of rows here.  Foreign keys are declared   *)
(* but never enabled (no PRAGMA foreign_keys), so content rows may dangle. *)
(* Timestamps kept in the save (created_at, updated_at, the timestamp of   *)
(* a history entry) and the constant flag 'unlocked' are left out; the     *)
(* JSON text of a save holds only integers, lists and string-keyed         *)
(* objects, which json.dumps / json.loads return unchanged.                *)
(* Table game_stats (update_game_stats) is written after the save and is  *)
(* read by no game operation; it is left out.  Database.save_game returns  *)
(* False when its statement raises, so every write of a save may fail.     *)
(*                                                                         *)
(* AuthService (auth.py) is modelled for one client whose requests are     *)
(* served one after the other while the clock advances between Database    *)
(* calls; time is in minutes, timestamps are compared as the ISO strings   *)
(* of the code compare (in time order), and Session.generate_token is a    *)
(* source of values that never repeat.                                     *)
(*                                                                         *)
(* StoryService (story.py) is modelled for one editor: each method is one  *)
(* transaction on the tables stories, chapters, scenes and choices, kept   *)
(* in the variable content with the columns that the methods read: keys,   *)
(* parent ids, numbers, counters and next_scene_id.  Ids come from         *)
(* AUTOINCREMENT and are never given out twice.                            *)
(***************************************************************************)
EXTENDS Integers, Sequences, FiniteSets, TLC

\* ---------------------------------------------------------------- bounds
NumProcs == 2
MaxSeqRequests == 4
MaxAccessRequests == 3
MaxAuthRequests == 5
MaxTicks == 2
MaxSessions == 2
MaxEdits == 4

Procs == 1..NumProcs

\* ------------------------------------------------------- program constants
NULL == 0
InitialDiamonds == 100
DefaultDiamonds == 0
DefaultSlot == 1
\* login_user: the lock is set from this many failed attempts on, for this many minutes
LockAfterAttempts == 5
LockMinutes == 15
\* Config.MAX_LOGIN_ATTEMPTS and Config.LOCKOUT_TIME, in minutes
MAX_LOGIN_ATTEMPTS == 5
LOCKOUT_TIME == 15
\* login_user: a session expires after this many days
SessionDays == 30
\* stories.chapters_count and stories.scenes_count of a new row
DefaultChaptersCount == 1
DefaultScenesCount == 0
MinutesPerDay == 1440

\* ------------------------------------------------------------ table rows
Users == {1}
SaveSlots == {DefaultSlot}

stories ==
  { [id |-> 1, story_key |-> "k1", premium |-> TRUE,  diamonds_cost |-> 50, is_published |-> TRUE],
    [id |-> 2, story_key |-> "k2", premium |-> TRUE,  diamonds_cost |-> 30, is_published |-> FALSE],
    [id |-> 3, story_key |-> "k3", premium |-> FALSE, diamonds_cost |-> 0,  is_published |-> TRUE],
    [id |-> 4, story_key |-> "k4", premium |-> FALSE, diamonds_cost |-> 0,  is_published |-> FALSE] }

chapters ==
  { [id |-> 11, story_id |-> 1, chapter_number |-> 1],
    [id |-> 12, story_id |-> 1, chapter_number |-> 2] }

scenes ==
  { [id |-> 21, chapter_id |-> 11, scene_number |-> 1],
    [id |-> 22, chapter_id |-> 11, scene_number |-> 2],
    [id |-> 23, chapter_id |-> 12, scene_number |-> 1],
    [id |-> 24, chapter_id |-> 18, scene_number |-> 1] }

choices ==
  { [id |-> 1, scene_id |-> 21, next_scene_id |-> 23, next_chapter_id |-> NULL,
     premium |-> FALSE, diamonds_cost |-> 0,
     affection_change |-> 2, trust_change |-> 0, passion_change |-> 1, unlock_condition |-> NULL],
    [id |-> 2, scene_id |-> 21, next_scene_id |-> NULL, next_chapter_id |-> NULL,
     premium |-> TRUE, diamonds_cost |-> 40,
     affection_change |-> -1, trust_change |-> 1, passion_change |-> 0, unlock_condition |-> NULL],
    [id |-> 3, scene_id |-> 21, next_scene_id |-> 29, next_chapter_id |-> NULL,
     premium |-> TRUE, diamonds_cost |-> 60,
     affection_change |-> 1, trust_change |-> 0, passion_change |-> 0, unlock_condition |-> NULL],
    [id |-> 4, scene_id |-> 22, next_scene_id |-> NULL, next_chapter_id |-> 12,
     premium |-> FALSE, diamonds_cost |-> 0,
     affection_change |-> 0, trust_change |-> 0, passion_change |-> 3, unlock_condition |-> 5],
    [id |-> 5, scene_id |-> 22, next_scene_id |-> NULL, next_chapter_id |-> 17,
     premium |-> FALSE, diamonds_cost |-> 0,
     affection_change |-> 0, trust_change |-> 2, passion_change |-> 0, unlock_condition |-> NULL],
    [id |-> 6, scene_id |-> 23, next_scene_id |-> 24, next_chapter_id |-> NULL,
     premium |-> FALSE, diamonds_cost |-> 0,
     affection_change |-> 1, trust_change |-> 1, passion_change |-> 1, unlock_condition |-> NULL] }

GameKeys == {"k1", "k2"}
\* a key that matches no story
UnknownKey == "k9"
AccessKeys == {s.story_key : s \in stories} \cup {UnknownKey}
ChoiceIds == {c.id : c \in choices} \cup {9}

\* the requests of the logged-in user: choices in the story that has content,
\* loads and purchases of both stories
Requests ==
  {[op |-> "choice", user_id |-> 1, game_key |-> "k1", choice_id |-> cid,
    save_slot |-> DefaultSlot] : cid \in ChoiceIds}
  \cup {[op |-> op, user_id |-> 1, game_key |-> k, choice_id |-> 0, save_slot |-> DefaultSlot] :
          op \in {"load", "purchase"}, k \in GameKeys}

\* the requests about access: access checks, purchases and loads of every key, known
\* or not, and a choice that needs no destination, sent under a known and under the
\* unknown key
AccessRequests ==
  {[op |-> op, user_id |-> 1, game_key |-> k, choice_id |-> 0, save_slot |-> DefaultSlot] :
     op \in {"access", "purchase", "load"}, k \in AccessKeys}
  \cup {[op |-> "choice", user_id |-> 1, game_key |-> k, choice_id |-> 2,
         save_slot |-> DefaultSlot] : k \in {"k1", UnknownKey}}

\* the requests explored under concurrent service: loads, purchases, one free
\* choice and the two premium choices
ConcurrentRequests == {r \in Requests : r.op = "choice" => r.choice_id \in {1, 2, 3}}

\* ------------------------------------------------------ content look-ups
get_story_by_key(story_key) == {s \in stories : s.story_key = story_key}
get_choice_by_id(choice_id) == {c \in choices : c.id = choice_id}
get_scene_by_id(scene_id) == {s \in scenes : s.id = scene_id}
get_chapter_by_id(chapter_id) == {c \in chapters : c.id = chapter_id}

Only(S) == CHOOSE x \in S : TRUE

\* GameService.get_game_story: the id of the scene found by
\* (story of the key, chapter_number, scene_number), NULL when none.
get_game_story(game_key, chapter, scene) ==
  LET st == get_story_by_key(game_key)
      chs == {c \in chapters : \E s \in st : c.story_id = s.id /\ c.chapter_number = chapter}
      scs == {s \in scenes : \E c \in chs : s.chapter_id = c.id /\ s.scene_number = scene}
  IN IF scs = {} THEN NULL ELSE Only(scs).id

\* ------------------------------------------------------------- the state
VARIABLES
  diamonds,     \* users.diamonds, by user id
  game_saves,   \* rows of table game_saves
  pc,           \* position of each request handler
  req,          \* the request a handler serves
  game_state,   \* the handler's in-memory game_state dict
  success,      \* result of the handler's last Database.save_game
  debited,      \* result of the handler's last Database.decrement_diamonds
  ret,          \* the handler's outcome
  pre,          \* balance and stored save when the request started
  applied,      \* per save: choice ids of the make_choice calls that returned success
  nreq          \* requests started so far

VARIABLES
  failed_login_attempts,  \* users.failed_login_attempts, by user id
  locked_until,           \* users.locked_until, by user id; NULL when not set
  last_login,             \* users.last_login, by user id; NULL when not set
  sessions,               \* rows of table sessions
  now,                    \* datetime.now(), in minutes
  next_token,             \* the token Session.generate_token returns next
  lg_pc,                  \* position of the handler of authentication requests
  lg_req,                 \* the authentication request it serves
  lg_user,                \* the users row login_user read
  lg_ret,                 \* what the call returned
  lg_pre,                 \* the user's row and the sessions when the request started
  issued,                 \* token and expires_at of every session a login returned
  logged_out,             \* the tokens logout_user was called with
  unlocked_checks,        \* wrong-password checks since the last successful login or lock
  nauth,                  \* authentication requests started so far
  nticks                  \* clock advances so far

game_vars == <<diamonds, game_saves, pc, req, game_state, success, debited, ret, pre, applied, nreq>>
auth_vars == <<failed_login_attempts, locked_until, last_login, sessions, now, next_token,
               lg_pc, lg_req, lg_user, lg_ret, lg_pre, issued, logged_out, unlocked_checks,
               nauth, nticks>>

VARIABLES
  content,   \* the tables stories, chapters, scenes, choices as the editor changes them,
             \* and the last id each table gave out
  refused,   \* a create_story, create_chapter or create_scene call returned None
  nedit      \* calls of the editor so far

edit_vars == <<content, refused, nedit>>

VARIABLES
  user_table,  \* the rows of table users: id, username, email, diamonds, is_admin
  user_seq,    \* the last id table users gave out (AUTOINCREMENT)
  rg_pc,       \* where each register_user call stands
  rg_req,      \* what each register_user call was given
  rg_id,       \* user_id as create_user returned it
  rg_ret       \* what each register_user call returned

reg_vars == <<user_table, user_seq, rg_pc, rg_req, rg_id, rg_ret>>
vars == <<game_vars, auth_vars, edit_vars, reg_vars>>

\* the save written by purchase_game and by load_game_state for a new game
InitialSave ==
  [chapter |-> 1, scene |-> 1, choices |-> <<>>,
   stats |-> [affection |-> 0, trust |-> 0, passion |-> 0]]

NoReq == [op |-> "none", user_id |-> 1, game_key |-> "k1", choice_id |-> 0, save_slot |-> DefaultSlot]
NoRet == [status |-> 0, mc |-> "none", message |-> "", story |-> NULL]
NoPre == [diamonds |-> 0, saves |-> {}]

\* ------------------------------------------------------ Database methods
\* Database.load_game: the save_data of the matching rows
load_game(rows, user_id, game_name, save_slot) ==
  {r.save_data : r \in {x \in rows : x.user_id = user_id /\ x.game_name = game_name
                                      /\ x.save_slot = save_slot}}

\* Database.get_user_saves
get_user_saves(rows, user_id, game_name) ==
  {r \in rows : r.user_id = user_id /\ r.game_name = game_name}

\* a row of table game_saves; id is AUTOINCREMENT and no game operation deletes rows
NewSaveRow(rows, user_id, game_name, save_slot, save_data) ==
  [id |-> Cardinality(rows) + 1, user_id |-> user_id, game_name |-> game_name,
   save_slot |-> save_slot, save_data |-> save_data]

save_game_plain_insert(rows, user_id, game_name, save_slot, save_data) ==
  rows \cup {NewSaveRow(rows, user_id, game_name, save_slot, save_data)}

\* Database.save_game: INSERT ... ON CONFLICT(user_id, game_name, save_slot) DO UPDATE
save_game(rows, user_id, game_name, save_slot, save_data) ==
  LET conflict == {r \in rows : r.user_id = user_id /\ r.game_name = game_name
                                /\ r.save_slot = save_slot}
  IN IF conflict = {}
     THEN rows \cup {NewSaveRow(rows, user_id, game_name, save_slot, save_data)}
     ELSE (rows \ conflict) \cup {[r EXCEPT !.save_data = save_data] : r \in conflict}

decrement_diamonds_unguarded(d, user_id, amount) ==
  [diamonds |-> [d EXCEPT ![user_id] = @ - amount], ok |-> TRUE]

\* Database.decrement_diamonds: UPDATE ... WHERE id = ? AND diamonds >= ?
decrement_diamonds(d, user_id, amount) ==
  IF d[user_id] >= amount
  THEN [diamonds |-> [d EXCEPT ![user_id] = @ - amount], ok |-> TRUE]
  ELSE [diamonds |-> d, ok |-> FALSE]

\* an increment that writes nothing
increment_diamonds_lost(d, user_id, amount) == d

\* Database.increment_diamonds
increment_diamonds(d, user_id, amount) == [d EXCEPT ![user_id] = @ + amount]

\* ----------------------------------------- GameService.make_choice, parts
\* game_state['choices'].append({...})
AppendChoice(gs, choice_id) ==
  [gs EXCEPT !.choices = Append(@, [choice_id |-> choice_id, scene |-> gs.scene,
                                     chapter |-> gs.chapter])]

UpdateStatsClamped(gs, c) ==
  LET Floor(x) == IF x < 0 THEN 0 ELSE x
  IN [gs EXCEPT !.stats = [affection |-> Floor(@.affection + c.affection_change),
                            trust |-> Floor(@.trust + c.trust_change),
                            passion |-> Floor(@.passion + c.passion_change)]]

\* game_state['stats'][k] = game_state['stats'].get(k, 0) + choice_data[k + '_change']
UpdateStats(gs, c) ==
  [gs EXCEPT !.stats = [affection |-> @.affection + c.affection_change,
                         trust |-> @.trust + c.trust_change,
                         passion |-> @.passion + c.passion_change]]

\* the transition to the next scene or chapter; ok = FALSE is an early return
Transition(gs, c) ==
  IF c.next_scene_id # NULL
  THEN LET ns == get_scene_by_id(c.next_scene_id)
       IN IF ns = {}
          THEN [ok |-> FALSE, message |-> "next_scene_not_found", gs |-> gs]
          ELSE LET ch == get_chapter_by_id(Only(ns).chapter_id)
               IN IF ch = {}
                  THEN [ok |-> FALSE, message |-> "chapter_of_next_scene_not_found", gs |-> gs]
                  ELSE [ok |-> TRUE, message |-> "",
                        gs |-> [gs EXCEPT !.chapter = Only(ch).chapter_number,
                                          !.scene = Only(ns).scene_number]]
  ELSE IF c.next_chapter_id # NULL
  THEN LET nc == get_chapter_by_id(c.next_chapter_id)
       IN IF nc = {}
          THEN [ok |-> FALSE, message |-> "next_chapter_not_found", gs |-> gs]
          ELSE [ok |-> TRUE, message |-> "",
                gs |-> [gs EXCEPT !.chapter = Only(nc).chapter_number, !.scene = 1]]
  ELSE [ok |-> TRUE, message |-> "", gs |-> [gs EXCEPT !.scene = @ + 1]]

\* api_make_choice after make_choice returned success: the pointer it stores
ApiPointer(gs, c) ==
  [gs EXCEPT !.scene = IF c.next_scene_id # NULL THEN c.next_scene_id ELSE gs.scene + 1,
             !.chapter = IF c.next_chapter_id # NULL THEN c.next_chapter_id ELSE gs.chapter]

\* --------------------------------------------------------------- helpers
\* Database.save_game returns False when the statement raises
SaveOutcomes == BOOLEAN

SaveKeys == Users \X AccessKeys \X SaveSlots
SaveKey(p) == <<req[p].user_id, req[p].game_key, req[p].save_slot>>

Idle(p) == pc[p] \in {"idle", "done"}

Finish(p, r) ==
  /\ pc' = [pc EXCEPT ![p] = "done"]
  /\ ret' = [ret EXCEPT ![p] = r]

Goto(p, label) ==
  /\ pc' = [pc EXCEPT ![p] = label]
  /\ UNCHANGED ret

FirstLabel(op) ==
  IF op = "choice" THEN "mc_load"
  ELSE IF op = "load" THEN "ld_load"
  ELSE IF op = "access" THEN "ac_access" ELSE "pg_access"

\* a request arrives: the handler that serves it starts
Begin(p, requests) ==
  /\ \E r \in requests :
       /\ req' = [req EXCEPT ![p] = r]
       /\ pre' = [pre EXCEPT ![p] = [diamonds |-> diamonds[r.user_id],
                                     saves |-> load_game(game_saves, r.user_id, r.game_key,
                                                         r.save_slot)]]
       /\ pc' = [pc EXCEPT ![p] = FirstLabel(r.op)]
  /\ ret' = [ret EXCEPT ![p] = NoRet]
  /\ game_state' = [game_state EXCEPT ![p] = InitialSave]
  /\ success' = [success EXCEPT ![p] = FALSE]
  /\ debited' = [debited EXCEPT ![p] = "none"]
  /\ nreq' = nreq + 1
  /\ UNCHANGED <<diamonds, game_saves, applied>>
  /\ UNCHANGED <<auth_vars, edit_vars, reg_vars>>

\* concurrent service: every handler serves one request; handlers are numbered in
\* the order in which their requests arrive
Start(p) ==
  /\ pc[p] = "idle"
  /\ \A q \in Procs : q < p => pc[q] # "idle"
  /\ Begin(p, ConcurrentRequests)

\* sequential service: one handler serves the requests one after the other
SeqStart ==
  /\ Idle(1)
  /\ nreq < MaxSeqRequests
  /\ Begin(1, Requests)

\* ------------------------------------------------ api_make_choice, steps
\* load_game_state: Database.load_game
mc_load(p) ==
  /\ pc[p] = "mc_load"
  /\ LET found == load_game(game_saves, req[p].user_id, req[p].game_key, req[p].save_slot)
     IN IF found # {}
        THEN /\ game_state' = [game_state EXCEPT ![p] = Only(found)]
             /\ Goto(p, "mc_choice")
        ELSE /\ game_state' = [game_state EXCEPT ![p] = InitialSave]
             /\ Goto(p, "mc_create")
  /\ UNCHANGED <<diamonds, game_saves, req, success, debited, pre, applied, nreq>>
  /\ UNCHANGED <<auth_vars, edit_vars, reg_vars>>

\* load_game_state: Database.save_game of the new save; the result is not read
mc_create(p) ==
  /\ pc[p] = "mc_create"
  /\ \E ok \in SaveOutcomes :
       /\ game_saves' = IF ok THEN save_game(game_saves, req[p].user_id, req[p].game_key,
                                             req[p].save_slot, game_state[p])
                        ELSE game_saves
       /\ success' = [success EXCEPT ![p] = ok]
  /\ Goto(p, "mc_choice")
  /\ UNCHANGED <<diamonds, req, game_state, debited, pre, applied, nreq>>
  /\ UNCHANGED <<auth_vars, edit_vars, reg_vars>>

\* what follows the debit (or its absence): the transition, then the save
AfterDebit(p, gs, c) ==
  LET t == Transition(gs, c)
  IN IF t.ok
     THEN /\ game_state' = [game_state EXCEPT ![p] = t.gs]
          /\ Goto(p, "mc_save")
     ELSE /\ game_state' = [game_state EXCEPT ![p] = gs]
          /\ Finish(p, [status |-> 400, mc |-> "fail", message |-> t.message, story |-> NULL])

\* the history entry, Database.get_choice_by_id and the stats
mc_choice(p) ==
  /\ pc[p] = "mc_choice"
  /\ LET gs == AppendChoice(game_state[p], req[p].choice_id)
         choice_data == get_choice_by_id(req[p].choice_id)
     IN IF choice_data = {}
        THEN /\ game_state' = [game_state EXCEPT ![p] = gs]
             /\ Goto(p, "mc_save")
        ELSE LET c == Only(choice_data)
                 gs2 == UpdateStats(gs, c)
             IN IF c.premium /\ c.diamonds_cost > 0
                THEN /\ game_state' = [game_state EXCEPT ![p] = gs2]
                     /\ Goto(p, "mc_debit")
                ELSE AfterDebit(p, gs2, c)
  /\ UNCHANGED <<diamonds, game_saves, req, success, debited, pre, applied, nreq>>
  /\ UNCHANGED <<auth_vars, edit_vars, reg_vars>>

\* a debit that a second request for the same choice skips while the first one is
\* still being served
mc_debit_once(p) ==
  /\ pc[p] = "mc_debit"
  /\ LET c == Only(get_choice_by_id(req[p].choice_id))
         d == decrement_diamonds(diamonds, req[p].user_id, c.diamonds_cost)
         held == \E q \in Procs \ {p} : /\ req[q] = req[p]
                                        /\ debited[q] = "ok"
                                        /\ pc[q] # "done"
     IN /\ diamonds' = IF held THEN diamonds ELSE d.diamonds
        /\ debited' = [debited EXCEPT ![p] = IF held \/ d.ok THEN "ok" ELSE "refused"]
        /\ AfterDebit(p, game_state[p], c)
  /\ UNCHANGED <<game_saves, req, success, pre, applied, nreq>>
  /\ UNCHANGED <<auth_vars, edit_vars, reg_vars>>

\* Database.decrement_diamonds for a premium choice; the result is not read
mc_debit(p) ==
  /\ pc[p] = "mc_debit"
  /\ LET c == Only(get_choice_by_id(req[p].choice_id))
         d == decrement_diamonds(diamonds, req[p].user_id, c.diamonds_cost)
     IN /\ diamonds' = d.diamonds
        /\ debited' = [debited EXCEPT ![p] = IF d.ok THEN "ok" ELSE "refused"]
        /\ AfterDebit(p, game_state[p], c)
  /\ UNCHANGED <<game_saves, req, success, pre, applied, nreq>>
  /\ UNCHANGED <<auth_vars, edit_vars, reg_vars>>

\* save_game_state at the end of make_choice, and what api_make_choice
\* computes from its result before its own save
mc_save(p) ==
  /\ pc[p] = "mc_save"
  /\ \E ok \in SaveOutcomes :
       /\ success' = [success EXCEPT ![p] = ok]
       /\ IF ok
          THEN /\ game_saves' = save_game(game_saves, req[p].user_id, req[p].game_key,
                                          req[p].save_slot, game_state[p])
               /\ applied' = [applied EXCEPT ![SaveKey(p)] = Append(@, req[p].choice_id)]
               /\ LET choice == get_choice_by_id(req[p].choice_id)
                  IN IF choice = {}
                     THEN /\ UNCHANGED game_state
                          /\ Finish(p, [status |-> 500, mc |-> "ok",
                                        message |-> "choice_made", story |-> NULL])
                     ELSE /\ game_state' = [game_state EXCEPT
                                              ![p] = ApiPointer(game_state[p], Only(choice))]
                          /\ pc' = [pc EXCEPT ![p] = "api_save"]
                          /\ ret' = [ret EXCEPT ![p] = [status |-> 0, mc |-> "ok",
                                                        message |-> "choice_made", story |-> NULL]]
          ELSE /\ UNCHANGED <<game_saves, applied, game_state>>
               /\ Finish(p, [status |-> 400, mc |-> "fail",
                             message |-> "save_error", story |-> NULL])
  /\ UNCHANGED <<diamonds, req, debited, pre, nreq>>
  /\ UNCHANGED <<auth_vars, edit_vars, reg_vars>>

\* get_game_story reads story['id']: with a key that matches no story it raises and
\* the route answers 500
StoryStatus(game_key) == IF get_story_by_key(game_key) = {} THEN 500 ELSE 200

\* api_make_choice: save_game_state of the pointer it computed, then get_game_story
api_save(p) ==
  /\ pc[p] = "api_save"
  /\ \E ok \in SaveOutcomes :
       /\ game_saves' = IF ok THEN save_game(game_saves, req[p].user_id, req[p].game_key,
                                             req[p].save_slot, game_state[p])
                        ELSE game_saves
       /\ success' = [success EXCEPT ![p] = ok]
  /\ Finish(p, [status |-> StoryStatus(req[p].game_key), mc |-> "ok", message |-> "choice_made",
                story |-> get_game_story(req[p].game_key, game_state[p].chapter,
                                         game_state[p].scene)])
  /\ UNCHANGED <<diamonds, req, game_state, debited, pre, applied, nreq>>
  /\ UNCHANGED <<auth_vars, edit_vars, reg_vars>>

\* --------------------------------------------------- api_load_game, steps
LoadReply(p, gs) ==
  [status |-> StoryStatus(req[p].game_key), mc |-> "none", message |-> "",
   story |-> get_game_story(req[p].game_key, gs.chapter, gs.scene)]

ld_load(p) ==
  /\ pc[p] = "ld_load"
  /\ LET found == load_game(game_saves, req[p].user_id, req[p].game_key, req[p].save_slot)
     IN IF found # {}
        THEN /\ game_state' = [game_state EXCEPT ![p] = Only(found)]
             /\ Finish(p, LoadReply(p, Only(found)))
        ELSE /\ game_state' = [game_state EXCEPT ![p] = InitialSave]
             /\ Goto(p, "ld_create")
  /\ UNCHANGED <<diamonds, game_saves, req, success, debited, pre, applied, nreq>>
  /\ UNCHANGED <<auth_vars, edit_vars, reg_vars>>

ld_create(p) ==
  /\ pc[p] = "ld_create"
  /\ \E ok \in SaveOutcomes :
       /\ game_saves' = IF ok THEN save_game(game_saves, req[p].user_id, req[p].game_key,
                                             req[p].save_slot, game_state[p])
                        ELSE game_saves
       /\ success' = [success EXCEPT ![p] = ok]
  /\ Finish(p, LoadReply(p, game_state[p]))
  /\ UNCHANGED <<diamonds, req, game_state, debited, pre, applied, nreq>>
  /\ UNCHANGED <<auth_vars, edit_vars, reg_vars>>

\* ----------------------------------------------- api_purchase_game, steps
Reply(status, message) == [status |-> status, mc |-> "none", message |-> message, story |-> NULL]

\* purchase_game: diamonds_cost of the story, 0 when the key matches no story
PurchaseCost(game_key) ==
  LET story == get_story_by_key(game_key)
  IN IF story = {} THEN 0 ELSE Only(story).diamonds_cost

\* purchase_game goes on unless can_access_game reported too few diamonds
AfterAccess(p) ==
  Goto(p, IF PurchaseCost(req[p].game_key) > 0 THEN "pg_debit" ELSE "pg_save")

\* can_access_game: the story, then Database.get_user_saves
pg_access(p) ==
  /\ pc[p] = "pg_access"
  /\ LET story == get_story_by_key(req[p].game_key)
         saves == get_user_saves(game_saves, req[p].user_id, req[p].game_key)
     IN IF story # {} /\ ~Only(story).is_published THEN AfterAccess(p)
        ELSE IF story # {} /\ ~Only(story).premium THEN AfterAccess(p)
        ELSE IF saves # {} THEN AfterAccess(p)
        ELSE Goto(p, "pg_user")
  /\ UNCHANGED <<diamonds, game_saves, req, game_state, success, debited, pre, applied, nreq>>
  /\ UNCHANGED <<auth_vars, edit_vars, reg_vars>>

\* can_access_game: Database.get_user_by_id and the balance check
pg_user(p) ==
  /\ pc[p] = "pg_user"
  /\ LET story == get_story_by_key(req[p].game_key)
     IN IF story = {}
        THEN Finish(p, Reply(500, "name_error"))
        ELSE IF diamonds[req[p].user_id] < Only(story).diamonds_cost
        THEN Finish(p, Reply(400, "insufficient_diamonds"))
        ELSE AfterAccess(p)
  /\ UNCHANGED <<diamonds, game_saves, req, game_state, success, debited, pre, applied, nreq>>
  /\ UNCHANGED <<auth_vars, edit_vars, reg_vars>>

\* purchase_game: Database.decrement_diamonds
pg_debit(p) ==
  /\ pc[p] = "pg_debit"
  /\ LET d == decrement_diamonds(diamonds, req[p].user_id, PurchaseCost(req[p].game_key))
     IN /\ diamonds' = d.diamonds
        /\ debited' = [debited EXCEPT ![p] = IF d.ok THEN "ok" ELSE "refused"]
        /\ IF d.ok THEN Goto(p, "pg_save")
                   ELSE Finish(p, Reply(400, "insufficient_diamonds"))
  /\ UNCHANGED <<game_saves, req, game_state, success, pre, applied, nreq>>
  /\ UNCHANGED <<auth_vars, edit_vars, reg_vars>>

\* purchase_game: Database.save_game of the initial save
pg_save(p) ==
  /\ pc[p] = "pg_save"
  /\ \E ok \in SaveOutcomes :
       /\ success' = [success EXCEPT ![p] = ok]
       /\ IF ok
          THEN /\ game_saves' = save_game(game_saves, req[p].user_id, req[p].game_key,
                                          1, InitialSave)
               /\ applied' = [applied EXCEPT ![<<req[p].user_id, req[p].game_key, 1>>] = <<>>]
               /\ Finish(p, Reply(200, "purchased"))
          ELSE /\ UNCHANGED <<game_saves, applied>>
               /\ IF PurchaseCost(req[p].game_key) > 0
                  THEN Goto(p, "pg_refund")
                  ELSE Finish(p, Reply(400, "purchase_error"))
  /\ UNCHANGED <<diamonds, req, game_state, debited, pre, nreq>>
  /\ UNCHANGED <<auth_vars, edit_vars, reg_vars>>

\* purchase_game: Database.increment_diamonds gives the diamonds back
pg_refund(p) ==
  /\ pc[p] = "pg_refund"
  /\ diamonds' = increment_diamonds(diamonds, req[p].user_id, PurchaseCost(req[p].game_key))
  /\ Finish(p, Reply(400, "purchase_error"))
  /\ UNCHANGED <<game_saves, req, game_state, success, debited, pre, applied, nreq>>
  /\ UNCHANGED <<auth_vars, edit_vars, reg_vars>>

\* ---------------------------------------------- api_check_game_access, steps
AccessReply(accessible, message) ==
  [status |-> 200, mc |-> "none", message |-> message, story |-> NULL,
   accessible |-> accessible]

\* can_access_game without the published check
AccessBySavesUnpublished(game_key, saves) ==
  LET story == get_story_by_key(game_key)
  IN IF story # {} /\ ~Only(story).premium
     THEN [decided |-> TRUE, accessible |-> TRUE, message |-> "free"]
     ELSE IF saves # {}
     THEN [decided |-> TRUE, accessible |-> TRUE, message |-> "already_purchased"]
     ELSE [decided |-> FALSE, accessible |-> FALSE, message |-> ""]

\* can_access_game up to the saves: published, free, already purchased
AccessBySaves(game_key, saves) ==
  LET story == get_story_by_key(game_key)
  IN IF story # {} /\ ~Only(story).is_published
     THEN [decided |-> TRUE, accessible |-> FALSE, message |-> "not_published"]
     ELSE IF story # {} /\ ~Only(story).premium
     THEN [decided |-> TRUE, accessible |-> TRUE, message |-> "free"]
     ELSE IF saves # {}
     THEN [decided |-> TRUE, accessible |-> TRUE, message |-> "already_purchased"]
     ELSE [decided |-> FALSE, accessible |-> FALSE, message |-> ""]

\* can_access_game from the user on: the balance against diamonds_cost; with no
\* story the cost is read from a name that is not defined
AccessByBalance(game_key, balance) ==
  LET story == get_story_by_key(game_key)
  IN IF story = {}
     THEN [raised |-> TRUE, accessible |-> FALSE, message |-> "name_error"]
     ELSE IF balance < Only(story).diamonds_cost
     THEN [raised |-> FALSE, accessible |-> FALSE, message |-> "insufficient_diamonds"]
     ELSE [raised |-> FALSE, accessible |-> TRUE, message |-> "for_diamonds"]

\* can_access_game: the story, then Database.get_user_saves
ac_access(p) ==
  /\ pc[p] = "ac_access"
  /\ LET r == AccessBySaves(req[p].game_key,
                            get_user_saves(game_saves, req[p].user_id, req[p].game_key))
     IN IF r.decided THEN Finish(p, AccessReply(r.accessible, r.message))
                     ELSE Goto(p, "ac_user")
  /\ UNCHANGED <<diamonds, game_saves, req, game_state, success, debited, pre, applied, nreq>>
  /\ UNCHANGED <<auth_vars, edit_vars, reg_vars>>

\* can_access_game: Database.get_user_by_id and the balance check
ac_user(p) ==
  /\ pc[p] = "ac_user"
  /\ LET r == AccessByBalance(req[p].game_key, diamonds[req[p].user_id])
     IN IF r.raised THEN Finish(p, Reply(500, r.message))
                    ELSE Finish(p, AccessReply(r.accessible, r.message))
  /\ UNCHANGED <<diamonds, game_saves, req, game_state, success, debited, pre, applied, nreq>>
  /\ UNCHANGED <<auth_vars, edit_vars, reg_vars>>

\* ------------------------------------------------------------ accounts
users == {[id |-> 1, username |-> "alice", email |-> "alice@example.org", password |-> "right"]}

\* what a client sends as identifier and password
Identifiers == {"alice", "alice@example.org", "nobody"}
Passwords == {"right", "wrong"}
\* wrong passwords given before the first request, since the last successful login
PriorFailures == {0, 3}
\* a token that no login returned
GarbageToken == 0
\* User.create_admin: diamonds=9999
AdminDiamonds == 9999
\* register_user: len(username) < 3, len(password) < 6
MinUsernameLen == 3
MinPasswordLen == 6
\* the tokens a client can send: the ones logins returned so far, and garbage
KnownTokens == 0..(next_token - 1)
\* how far the clock advances between two steps, in minutes
TickSteps == {5, 10, SessionDays * MinutesPerDay}

get_user_by_username(username) == {u \in users : u.username = username}
get_user_by_email(email) == {u \in users : u.email = email}

\* the users row as login_user reads it
UserRow(u) ==
  [id |-> u, failed_login_attempts |-> failed_login_attempts[u],
   locked_until |-> locked_until[u], last_login |-> last_login[u]]
NoUser == [id |-> NULL, failed_login_attempts |-> 0, locked_until |-> NULL, last_login |-> NULL]

\* a lock that no login sees
is_locked_never(user, t) == FALSE

\* User.is_locked at time t
is_locked(user, t) == user.locked_until # NULL /\ t < user.locked_until

\* User.verify_password
verify_password(password, user) == \E u \in users : u.id = user.id /\ u.password = password

\* Database.create_session
create_session(rows, user_id, session_token, expires_at) ==
  rows \cup {[user_id |-> user_id, session_token |-> session_token, expires_at |-> expires_at]}

\* Database.validate_session at time t: the matching rows
validate_session(rows, session_token, t) ==
  {s \in rows : s.session_token = session_token /\ s.expires_at > t}

\* a delete that leaves the row
delete_session_kept(rows, session_token) == rows

\* Database.delete_session
delete_session(rows, session_token) == {s \in rows : s.session_token # session_token}

NoAuthReq == [op |-> "none", identifier |-> "", password |-> "", token |-> GarbageToken]
NoAuthRet == [success |-> FALSE, message |-> "", token |-> GarbageToken]
NoAuthPre == [users |-> [u \in Users |-> NoUser], sessions |-> {}]

AuthIdle == lg_pc \in {"idle", "done"}

\* an authentication request arrives
AuthBegin(r) ==
  /\ AuthIdle
  /\ nauth < MaxAuthRequests
  /\ nauth' = nauth + 1
  /\ lg_req' = r
  /\ lg_pre' = [users |-> [u \in Users |-> UserRow(u)], sessions |-> sessions]

AuthFinish(r) ==
  /\ lg_pc' = "done"
  /\ lg_ret' = r

AuthGoto(label) ==
  /\ lg_pc' = label
  /\ lg_ret' = NoAuthRet

Failure(message) == [success |-> FALSE, message |-> message, token |-> GarbageToken]

\* login_user up to its first write: the user by username, then by email, the lock,
\* the password
login_user ==
  \E identifier \in Identifiers, password \in Passwords :
    /\ AuthBegin([op |-> "login", identifier |-> identifier, password |-> password,
                  token |-> GarbageToken])
    /\ LET by_name == get_user_by_username(identifier)
           found == IF by_name # {} THEN by_name ELSE get_user_by_email(identifier)
       IN IF found = {}
          THEN /\ lg_user' = NoUser
               /\ AuthFinish(Failure("bad_credentials"))
               /\ UNCHANGED unlocked_checks
          ELSE LET user == UserRow(Only(found).id)
               IN /\ lg_user' = user
                  /\ IF is_locked(user, now)
                     THEN /\ AuthFinish(Failure("locked"))
                          /\ UNCHANGED unlocked_checks
                     ELSE IF ~verify_password(password, user)
                     THEN /\ AuthGoto("lg_attempts")
                          /\ unlocked_checks' = unlocked_checks + 1
                     ELSE /\ next_token <= MaxSessions
                          /\ AuthGoto("lg_reset")
                          /\ UNCHANGED unlocked_checks
    /\ UNCHANGED <<failed_login_attempts, locked_until, last_login, sessions, now, next_token,
                   issued, logged_out, nticks>>
    /\ UNCHANGED <<game_vars, edit_vars, reg_vars>>

\* the lock set only above the limit
lg_attempts_above ==
  /\ lg_pc = "lg_attempts"
  /\ LET new_attempts == lg_user.failed_login_attempts + 1
     IN /\ failed_login_attempts' = [failed_login_attempts EXCEPT ![lg_user.id] = new_attempts]
        /\ IF new_attempts > LockAfterAttempts
           THEN /\ lg_pc' = "lg_lock"
                /\ UNCHANGED lg_ret
           ELSE AuthFinish(Failure("bad_credentials"))
  /\ UNCHANGED <<locked_until, last_login, sessions, now, next_token, lg_req, lg_user, lg_pre,
                 issued, logged_out, unlocked_checks, nauth, nticks>>
  /\ UNCHANGED <<game_vars, edit_vars, reg_vars>>

\* login_user, wrong password: Database.update_user of the failed attempts
lg_attempts ==
  /\ lg_pc = "lg_attempts"
  /\ LET new_attempts == lg_user.failed_login_attempts + 1
     IN /\ failed_login_attempts' = [failed_login_attempts EXCEPT ![lg_user.id] = new_attempts]
        /\ IF new_attempts >= LockAfterAttempts
           THEN /\ lg_pc' = "lg_lock"
                /\ UNCHANGED lg_ret
           ELSE AuthFinish(Failure("bad_credentials"))
  /\ UNCHANGED <<locked_until, last_login, sessions, now, next_token, lg_req, lg_user, lg_pre,
                 issued, logged_out, unlocked_checks, nauth, nticks>>
  /\ UNCHANGED <<game_vars, edit_vars, reg_vars>>

\* login_user, wrong password at the limit: Database.update_user of locked_until
lg_lock ==
  /\ lg_pc = "lg_lock"
  /\ locked_until' = [locked_until EXCEPT ![lg_user.id] = now + LockMinutes]
  /\ unlocked_checks' = 0
  /\ AuthFinish(Failure("locked_now"))
  /\ UNCHANGED <<failed_login_attempts, last_login, sessions, now, next_token, lg_req, lg_user,
                 lg_pre, issued, logged_out, nauth, nticks>>
  /\ UNCHANGED <<game_vars, edit_vars, reg_vars>>

\* login_user, right password: Database.update_user resets the attempts and the lock
lg_reset ==
  /\ lg_pc = "lg_reset"
  /\ failed_login_attempts' = [failed_login_attempts EXCEPT ![lg_user.id] = 0]
  /\ locked_until' = [locked_until EXCEPT ![lg_user.id] = NULL]
  /\ last_login' = [last_login EXCEPT ![lg_user.id] = now]
  /\ unlocked_checks' = 0
  /\ lg_pc' = "lg_session"
  /\ UNCHANGED <<sessions, now, next_token, lg_req, lg_user, lg_ret, lg_pre, issued, logged_out,
                 nauth, nticks>>
  /\ UNCHANGED <<game_vars, edit_vars, reg_vars>>

\* login_user, right password: Session.generate_token and Database.create_session
lg_session ==
  /\ lg_pc = "lg_session"
  /\ LET expires_at == now + SessionDays * MinutesPerDay
     IN /\ sessions' = create_session(sessions, lg_user.id, next_token, expires_at)
        /\ issued' = issued \cup {[session_token |-> next_token, expires_at |-> expires_at]}
  /\ AuthFinish([success |-> TRUE, message |-> "logged_in", token |-> next_token])
  /\ next_token' = next_token + 1
  /\ UNCHANGED <<failed_login_attempts, locked_until, last_login, now, lg_req, lg_user, lg_pre,
                 logged_out, unlocked_checks, nauth, nticks>>
  /\ UNCHANGED <<game_vars, edit_vars, reg_vars>>

\* logout_user: Database.delete_session
logout_user ==
  \E token \in KnownTokens :
    /\ AuthBegin([op |-> "logout", identifier |-> "", password |-> "", token |-> token])
    /\ sessions' = delete_session(sessions, token)
    /\ logged_out' = logged_out \cup {token}
    /\ AuthFinish([success |-> sessions' # sessions, message |-> "", token |-> token])
    /\ UNCHANGED <<failed_login_attempts, locked_until, last_login, now, next_token, lg_user,
                   issued, unlocked_checks, nticks>>
    /\ UNCHANGED <<game_vars, edit_vars, reg_vars>>

\* validate_session_token: Database.validate_session
validate_session_token ==
  \E token \in KnownTokens :
    /\ AuthBegin([op |-> "validate", identifier |-> "", password |-> "", token |-> token])
    /\ AuthFinish([success |-> validate_session(sessions, token, now) # {}, message |-> "",
                   token |-> token])
    /\ UNCHANGED <<failed_login_attempts, locked_until, last_login, sessions, now, next_token,
                   lg_user, issued, logged_out, unlocked_checks, nticks>>
    /\ UNCHANGED <<game_vars, edit_vars, reg_vars>>

\* time passes
Tick ==
  /\ nticks < MaxTicks
  /\ nticks' = nticks + 1
  /\ \E d \in TickSteps : now' = now + d
  /\ UNCHANGED <<failed_login_attempts, locked_until, last_login, sessions, next_token, lg_pc,
                 lg_req, lg_user, lg_ret, lg_pre, issued, logged_out, unlocked_checks, nauth>>
  /\ UNCHANGED <<game_vars, edit_vars, reg_vars>>

\* ----------------------------------------------------------- StoryService
\* what the editor sends
StoryKeys == {"a", "b"}
ChapterNumbers == {1, 2}
SceneNumbers == {1, 2}
\* the ids the editor refers to; no table gives out more
StoryIds == {1, 2}
ChapterIds == {1, 2}
SceneIds == {1, 2}
EditChoiceIds == {1, 2}

EmptyContent ==
  [stories |-> {}, chapters |-> {}, scenes |-> {}, choices |-> {},
   seq |-> [stories |-> 0, chapters |-> 0, scenes |-> 0, choices |-> 0]]

\* rows in ascending order of their field n
RECURSIVE Ordered(_)
Ordered(P) ==
  IF P = {} THEN <<>>
  ELSE LET m == CHOOSE x \in P : \A y \in P : x.n <= y.n
       IN <<m.row>> \o Ordered(P \ {m})

\* SELECT story_id FROM chapters WHERE id = chapter_id
StoryOfChapter(chapter_rows, chapter_id) == {ch.story_id : ch \in {x \in chapter_rows : x.id = chapter_id}}
\* SELECT chapter_id FROM scenes WHERE id = scene_id
ChapterOfScene(scene_rows, scene_id) == {sc.chapter_id : sc \in {x \in scene_rows : x.id = scene_id}}

\* UPDATE stories SET chapters_count = COUNT(chapters of the story) WHERE id IN ids
CountChapters(c, ids) ==
  [c EXCEPT !.stories =
     {IF s.id \in ids
      THEN [s EXCEPT !.chapters_count = Cardinality({ch \in c.chapters : ch.story_id = s.id})]
      ELSE s : s \in c.stories}]

\* UPDATE stories SET scenes_count = COUNT(scenes in the chapters of the story)
\* WHERE id IN ids
CountScenes(c, ids) ==
  [c EXCEPT !.stories =
     {IF s.id \in ids
      THEN [s EXCEPT !.scenes_count =
              Cardinality({sc \in c.scenes :
                             \E ch \in c.chapters : ch.story_id = s.id /\ ch.id = sc.chapter_id})]
      ELSE s : s \in c.stories}]

\* StoryService.create_story: story_key is UNIQUE
create_story(c, story_key) ==
  IF \E s \in c.stories : s.story_key = story_key
  THEN [content |-> c, id |-> NULL]
  ELSE LET id == c.seq.stories + 1
       IN [content |-> [c EXCEPT !.stories = @ \cup {[id |-> id, story_key |-> story_key,
                                                      chapters_count |-> DefaultChaptersCount,
                                                      scenes_count |-> DefaultScenesCount]},
                                 !.seq.stories = id],
           id |-> id]

\* an insert that no constraint stops
create_chapter_unchecked(c, story_id, chapter_number) ==
  LET id == c.seq.chapters + 1
      inserted == [c EXCEPT !.chapters = @ \cup {[id |-> id, story_id |-> story_id,
                                                  chapter_number |-> chapter_number]},
                            !.seq.chapters = id]
  IN [content |-> CountChapters(inserted, {story_id}), id |-> id]

\* StoryService.create_chapter: (story_id, chapter_number) is UNIQUE
create_chapter(c, story_id, chapter_number) ==
  IF \E ch \in c.chapters : ch.story_id = story_id /\ ch.chapter_number = chapter_number
  THEN [content |-> c, id |-> NULL]
  ELSE LET id == c.seq.chapters + 1
           inserted == [c EXCEPT !.chapters = @ \cup {[id |-> id, story_id |-> story_id,
                                                       chapter_number |-> chapter_number]},
                                 !.seq.chapters = id]
       IN [content |-> CountChapters(inserted, {story_id}), id |-> id]

\* StoryService.create_scene: (chapter_id, scene_number) is UNIQUE
create_scene(c, chapter_id, scene_number) ==
  IF \E sc \in c.scenes : sc.chapter_id = chapter_id /\ sc.scene_number = scene_number
  THEN [content |-> c, id |-> NULL]
  ELSE LET id == c.seq.scenes + 1
           inserted == [c EXCEPT !.scenes = @ \cup {[id |-> id, chapter_id |-> chapter_id,
                                                     scene_number |-> scene_number]},
                                 !.seq.scenes = id]
       IN [content |-> CountScenes(inserted, StoryOfChapter(inserted.chapters, chapter_id)),
           id |-> id]

\* StoryService.delete_chapter: the count is updated for the story the chapter has
\* after the DELETE
delete_chapter(c, chapter_id) ==
  LET deleted == [c EXCEPT !.chapters = {ch \in @ : ch.id # chapter_id}]
      ids == StoryOfChapter(deleted.chapters, chapter_id)
  IN [content |-> CountChapters(deleted, ids),
      ok |-> \E s \in deleted.stories : s.id \in ids]

\* StoryService.delete_scene: the count is updated for the story the scene has after
\* the DELETE
delete_scene(c, scene_id) ==
  LET deleted == [c EXCEPT !.scenes = {sc \in @ : sc.id # scene_id}]
      ids == UNION {StoryOfChapter(deleted.chapters, ch) :
                      ch \in ChapterOfScene(deleted.scenes, scene_id)}
  IN [content |-> CountScenes(deleted, ids),
      ok |-> \E s \in deleted.stories : s.id \in ids]

\* StoryService.create_choice
create_choice(c, scene_id, next_scene_id) ==
  LET id == c.seq.choices + 1
  IN [content |-> [c EXCEPT !.choices = @ \cup {[id |-> id, scene_id |-> scene_id,
                                                 next_scene_id |-> next_scene_id]},
                            !.seq.choices = id],
      id |-> id]

\* StoryService.update_choice of next_scene_id
update_choice(c, choice_id, next_scene_id) ==
  [content |-> [c EXCEPT !.choices = {IF x.id = choice_id
                                      THEN [x EXCEPT !.next_scene_id = next_scene_id]
                                      ELSE x : x \in @}],
   ok |-> \E x \in c.choices : x.id = choice_id]

\* StoryService.export_story: the story as nested data, chapters by chapter_number,
\* scenes by scene_number, the destination ids of the choices as stored
export_story(c, story_id) ==
  LET story == CHOOSE s \in c.stories : s.id = story_id
      choice_data(sc) ==
        Ordered({[n |-> x.id, row |-> [next_scene_id |-> x.next_scene_id]] :
                   x \in {y \in c.choices : y.scene_id = sc.id}})
      scene_data(ch) ==
        Ordered({[n |-> sc.scene_number,
                  row |-> [scene_number |-> sc.scene_number, choices |-> choice_data(sc)]] :
                   sc \in {y \in c.scenes : y.chapter_id = ch.id}})
  IN [story_key |-> story.story_key,
      chapters |-> Ordered({[n |-> ch.chapter_number,
                             row |-> [chapter_number |-> ch.chapter_number,
                                      scenes |-> scene_data(ch)]] :
                              ch \in {y \in c.chapters : y.story_id = story_id}})]

\* import_story: the choices of one scene
RECURSIVE import_choices(_, _, _)
import_choices(c, scene_id, choice_list) ==
  IF choice_list = <<>> THEN c
  ELSE import_choices(create_choice(c, scene_id, Head(choice_list).next_scene_id).content,
                      scene_id, Tail(choice_list))

\* import_story: the scenes of one chapter; a scene that is not created is skipped
RECURSIVE import_scenes(_, _, _)
import_scenes(c, chapter_id, scene_list) ==
  IF scene_list = <<>> THEN c
  ELSE LET r == create_scene(c, chapter_id, Head(scene_list).scene_number)
           done == IF r.id = NULL THEN r.content
                   ELSE import_choices(r.content, r.id, Head(scene_list).choices)
       IN import_scenes(done, chapter_id, Tail(scene_list))

\* import_story: the chapters; a chapter that is not created is skipped
RECURSIVE import_chapters(_, _, _)
import_chapters(c, story_id, chapter_list) ==
  IF chapter_list = <<>> THEN c
  ELSE LET r == create_chapter(c, story_id, Head(chapter_list).chapter_number)
           done == IF r.id = NULL THEN r.content
                   ELSE import_scenes(r.content, r.id, Head(chapter_list).scenes)
       IN import_chapters(done, story_id, Tail(chapter_list))

\* StoryService.import_story
import_story(c, story_data) ==
  LET r == create_story(c, story_data.story_key)
  IN IF r.id = NULL THEN [content |-> c, id |-> NULL]
     ELSE [content |-> import_chapters(r.content, r.id, story_data.chapters), id |-> r.id]

\* story data written by hand: two chapters with the same number, the first with two
\* scenes with the same number
DuplicateData(story_key) ==
  [story_key |-> story_key,
   chapters |-> << [chapter_number |-> 1,
                    scenes |-> << [scene_number |-> 1, choices |-> <<>>],
                                  [scene_number |-> 1, choices |-> <<>>] >>],
                   [chapter_number |-> 1, scenes |-> <<>>] >>]

\* the story data the editor imports: an export of a stored story, under its own or
\* under another key, or the data written by hand
ImportData(c) ==
  {[export_story(c, s.id) EXCEPT !.story_key = k] : s \in c.stories, k \in StoryKeys}
  \cup {DuplicateData(k) : k \in StoryKeys}

\* the tables stay within the ids explored
WithinBounds(c) ==
  /\ c.seq.stories \in StoryIds \cup {0}
  /\ c.seq.chapters \in ChapterIds \cup {0}
  /\ c.seq.scenes \in SceneIds \cup {0}
  /\ c.seq.choices \in EditChoiceIds \cup {0}

\* the editor calls a method of StoryService that returns an id, or None
Created(id) ==
  /\ nedit < MaxEdits
  /\ nedit' = nedit + 1
  /\ refused' = (refused \/ id = NULL)

\* the editor calls a method of StoryService that returns True or False
Edited ==
  /\ nedit < MaxEdits
  /\ nedit' = nedit + 1
  /\ UNCHANGED refused

api_create_story ==
  \E k \in StoryKeys :
    LET r == create_story(content, k)
    IN /\ WithinBounds(r.content)
       /\ content' = r.content
       /\ Created(r.id)
       /\ UNCHANGED <<game_vars, auth_vars, reg_vars>>

api_create_chapter ==
  \E story_id \in StoryIds, n \in ChapterNumbers :
    LET r == create_chapter(content, story_id, n)
    IN /\ WithinBounds(r.content)
       /\ content' = r.content
       /\ Created(r.id)
       /\ UNCHANGED <<game_vars, auth_vars, reg_vars>>

api_delete_chapter ==
  \E chapter_id \in ChapterIds :
    LET r == delete_chapter(content, chapter_id)
    IN /\ content' = r.content
       /\ Edited
       /\ UNCHANGED <<game_vars, auth_vars, reg_vars>>

api_create_scene ==
  \E chapter_id \in ChapterIds, n \in SceneNumbers :
    LET r == create_scene(content, chapter_id, n)
    IN /\ WithinBounds(r.content)
       /\ content' = r.content
       /\ Created(r.id)
       /\ UNCHANGED <<game_vars, auth_vars, reg_vars>>

api_delete_scene ==
  \E scene_id \in SceneIds :
    LET r == delete_scene(content, scene_id)
    IN /\ content' = r.content
       /\ Edited
       /\ UNCHANGED <<game_vars, auth_vars, reg_vars>>

api_create_choice ==
  \E scene_id \in SceneIds, next_scene_id \in SceneIds \cup {NULL} :
    LET r == create_choice(content, scene_id, next_scene_id)
    IN /\ WithinBounds(r.content)
       /\ content' = r.content
       /\ Created(r.id)
       /\ UNCHANGED <<game_vars, auth_vars, reg_vars>>

api_update_choice ==
  \E choice_id \in EditChoiceIds, next_scene_id \in SceneIds \cup {NULL} :
    LET r == update_choice(content, choice_id, next_scene_id)
    IN /\ content' = r.content
       /\ Edited
       /\ UNCHANGED <<game_vars, auth_vars, reg_vars>>

\* api_export_story, then api_import_story of what it returned
api_import_story ==
  \E story_data \in ImportData(content) :
    LET r == import_story(content, story_data)
    IN /\ WithinBounds(r.content)
       /\ content' = r.content
       /\ Created(r.id)
       /\ UNCHANGED <<game_vars, auth_vars, reg_vars>>

\* ------------------------------------------------ AuthService.register_user
\* An email is the sequence of its characters; a username and a password are strings.
Chars(s) == {s[i] : i \in 1..Len(s)}

\* the row init_database inserts: the administrator
AdminRow == [id |-> 1, username |-> "admin", email |-> <<"a", "@", "l">>,
             diamonds |-> AdminDiamonds, is_admin |-> TRUE]

\* what a client sends to /api/register
RegRequests ==
  {[username |-> "admin", email |-> <<"b", "@", "x">>, password |-> "secret"],
   [username |-> "bob", email |-> <<"a", "@", "l">>, password |-> "secret"],
   [username |-> "bob", email |-> <<"b", "@", "x">>, password |-> "secret"],
   [username |-> "bob", email |-> <<"c", "@", "x">>, password |-> "secret"],
   [username |-> "carol", email |-> <<"b", "@", "x">>, password |-> "secret"],
   [username |-> "al", email |-> <<"b", "@", "x">>, password |-> "secret"],
   [username |-> "bob", email |-> <<"b", "x">>, password |-> "secret"],
   [username |-> "bob", email |-> <<"b", "@", "x">>, password |-> "short"]}

\* SELECT * FROM users WHERE username = ?
db_get_user_by_username(table, username) == {u \in table : u.username = username}
\* SELECT * FROM users WHERE email = ?
db_get_user_by_email(table, email) == {u \in table : u.email = email}
\* SELECT * FROM users WHERE id = ?
db_get_user_by_id(table, user_id) == {u \in table : u.id = user_id}

\* an INSERT into a table without the UNIQUE constraints
create_user_unconstrained(table, seq, username, email, amount) ==
  [table |-> table \cup {[id |-> seq + 1, username |-> username, email |-> email,
                          diamonds |-> amount, is_admin |-> FALSE]},
   seq |-> seq + 1, id |-> seq + 1]

\* Database.create_user: INSERT INTO users; username and email are UNIQUE, and the
\* IntegrityError of a duplicate is answered with None. is_admin takes its DEFAULT 0.
create_user(table, seq, username, email, amount) ==
  IF \E u \in table : u.username = username \/ u.email = email
  THEN [table |-> table, seq |-> seq, id |-> NULL]
  ELSE [table |-> table \cup {[id |-> seq + 1, username |-> username, email |-> email,
                               diamonds |-> amount, is_admin |-> FALSE]},
        seq |-> seq + 1, id |-> seq + 1]

NoRegRet == [ok |-> FALSE, message |-> "", user |-> {}]
RegFailure(message) == [ok |-> FALSE, message |-> message, user |-> {}]

\* the validation of register_user, NoRegRet when the data pass
Validate(r) ==
  IF Len(r.username) < MinUsernameLen THEN RegFailure("short_username")
  ELSE IF "@" \notin Chars(r.email) THEN RegFailure("bad_email")
  ELSE IF Len(r.password) < MinPasswordLen THEN RegFailure("short_password")
  ELSE NoRegRet

\* register_user is called: the validation of username, email and password
register_user(p) ==
  /\ rg_pc[p] = "idle"
  /\ \A q \in Procs : q < p => rg_pc[q] # "idle"
  /\ \E r \in RegRequests :
       /\ rg_req' = [rg_req EXCEPT ![p] = r]
       /\ rg_ret' = [rg_ret EXCEPT ![p] = Validate(r)]
       /\ rg_pc' = [rg_pc EXCEPT ![p] = IF Validate(r) = NoRegRet THEN "rg_username"
                                         ELSE "done"]
  /\ UNCHANGED <<user_table, user_seq, rg_id>>
  /\ UNCHANGED <<game_vars, auth_vars, edit_vars>>

\* if self.db.get_user_by_username(username)
rg_username(p) ==
  /\ rg_pc[p] = "rg_username"
  /\ IF db_get_user_by_username(user_table, rg_req[p].username) # {}
     THEN /\ rg_ret' = [rg_ret EXCEPT ![p] = RegFailure("username_exists")]
          /\ rg_pc' = [rg_pc EXCEPT ![p] = "done"]
     ELSE /\ rg_pc' = [rg_pc EXCEPT ![p] = "rg_email"]
          /\ UNCHANGED rg_ret
  /\ UNCHANGED <<user_table, user_seq, rg_req, rg_id>>
  /\ UNCHANGED <<game_vars, auth_vars, edit_vars>>

\* if self.db.get_user_by_email(email)
rg_email(p) ==
  /\ rg_pc[p] = "rg_email"
  /\ IF db_get_user_by_email(user_table, rg_req[p].email) # {}
     THEN /\ rg_ret' = [rg_ret EXCEPT ![p] = RegFailure("email_exists")]
          /\ rg_pc' = [rg_pc EXCEPT ![p] = "done"]
     ELSE /\ rg_pc' = [rg_pc EXCEPT ![p] = "rg_create"]
          /\ UNCHANGED rg_ret
  /\ UNCHANGED <<user_table, user_seq, rg_req, rg_id>>
  /\ UNCHANGED <<game_vars, auth_vars, edit_vars>>

\* user_id = self.db.create_user(..., diamonds=100); if not user_id: failure
rg_create(p) ==
  /\ rg_pc[p] = "rg_create"
  /\ LET r == create_user(user_table, user_seq, rg_req[p].username, rg_req[p].email,
                          InitialDiamonds)
     IN /\ user_table' = r.table
        /\ user_seq' = r.seq
        /\ rg_id' = [rg_id EXCEPT ![p] = r.id]
        /\ IF r.id = NULL
           THEN /\ rg_ret' = [rg_ret EXCEPT ![p] = RegFailure("create_error")]
                /\ rg_pc' = [rg_pc EXCEPT ![p] = "done"]
           ELSE /\ rg_pc' = [rg_pc EXCEPT ![p] = "rg_get"]
                /\ UNCHANGED rg_ret
  /\ UNCHANGED rg_req
  /\ UNCHANGED <<game_vars, auth_vars, edit_vars>>

\* user_data = self.db.get_user_by_id(user_id); return True, ..., user_data
rg_get(p) ==
  /\ rg_pc[p] = "rg_get"
  /\ rg_ret' = [rg_ret EXCEPT ![p] = [ok |-> TRUE, message |-> "registered",
                                      user |-> db_get_user_by_id(user_table, rg_id[p])]]
  /\ rg_pc' = [rg_pc EXCEPT ![p] = "done"]
  /\ UNCHANGED <<user_table, user_seq, rg_req, rg_id>>
  /\ UNCHANGED <<game_vars, auth_vars, edit_vars>>

\* ------------------------------------------------------- specifications
\* the game tables and the request handlers: users with one of the given balances
\* and no save
GameInit(balances) ==
  /\ diamonds \in [Users -> balances]
  /\ game_saves = {}
  /\ pc = [p \in Procs |-> "idle"]
  /\ req = [p \in Procs |-> NoReq]
  /\ game_state = [p \in Procs |-> InitialSave]
  /\ success = [p \in Procs |-> FALSE]
  /\ debited = [p \in Procs |-> "none"]
  /\ ret = [p \in Procs |-> NoRet]
  /\ pre = [p \in Procs |-> NoPre]
  /\ applied = [k \in SaveKeys |-> <<>>]
  /\ nreq = 0

\* the accounts: one of the given numbers of failed attempts, no lock, no session
AccountsInit(failures) ==
  /\ \E n \in failures : /\ failed_login_attempts = [u \in Users |-> n]
                               /\ unlocked_checks = n
  /\ locked_until = [u \in Users |-> NULL]
  /\ last_login = [u \in Users |-> NULL]
  /\ sessions = {}
  /\ now = 1
  /\ next_token = 1
  /\ lg_pc = "idle"
  /\ lg_req = NoAuthReq
  /\ lg_user = NoUser
  /\ lg_ret = NoAuthRet
  /\ lg_pre = NoAuthPre
  /\ issued = {}
  /\ logged_out = {}
  /\ nauth = 0
  /\ nticks = 0

\* the editor's tables: empty
ContentInit ==
  /\ content = EmptyContent
  /\ refused = FALSE
  /\ nedit = 0

\* table users as init_database leaves it, and no register_user call under way
RegistrationInit ==
  /\ user_table = {AdminRow}
  /\ user_seq = 1
  /\ rg_pc = [p \in Procs |-> "idle"]
  /\ rg_req = [p \in Procs |-> [username |-> "", email |-> <<>>, password |-> ""]]
  /\ rg_id = [p \in Procs |-> NULL]
  /\ rg_ret = [p \in Procs |-> NoRegRet]

\* a user as registered (100 diamonds) or as the column default leaves it (0)
Init ==
  /\ GameInit({DefaultDiamonds, InitialDiamonds}) /\ AccountsInit({0}) /\ ContentInit
  /\ RegistrationInit
\* a registered user who may have given wrong passwords before
AuthInit ==
  /\ GameInit({InitialDiamonds}) /\ AccountsInit(PriorFailures) /\ ContentInit
  /\ RegistrationInit
\* a registered user who edits stories
EditInit ==
  /\ GameInit({InitialDiamonds}) /\ AccountsInit({0}) /\ ContentInit
  /\ RegistrationInit
\* clients who register
RegInit ==
  /\ GameInit({InitialDiamonds}) /\ AccountsInit({0}) /\ ContentInit
  /\ RegistrationInit

Step(p) ==
  \/ mc_load(p) \/ mc_create(p) \/ mc_choice(p) \/ mc_debit(p) \/ mc_save(p) \/ api_save(p)
  \/ ld_load(p) \/ ld_create(p)
  \/ pg_access(p) \/ pg_user(p) \/ pg_debit(p) \/ pg_save(p) \/ pg_refund(p)

\* requests are served concurrently
Next == \E p \in Procs : Start(p) \/ Step(p)
Spec == Init /\ [][Next]_vars

\* requests are served one after the other
SeqNext == SeqStart \/ \E p \in Procs : Step(p)
SeqSpec == Init /\ [][SeqNext]_vars

\* access checks, purchases, loads and choices of known and unknown keys, served
\* one after the other
AccessStart ==
  /\ Idle(1)
  /\ nreq < MaxAccessRequests
  /\ Begin(1, AccessRequests)

AccessStep(p) == ac_access(p) \/ ac_user(p)
AccessNext == AccessStart \/ \E p \in Procs : Step(p) \/ AccessStep(p)
AccessSpec == Init /\ [][AccessNext]_vars

\* logins, logouts and session checks of one client, served one after the other
\* while time passes
AuthNext ==
  \/ login_user \/ lg_attempts \/ lg_lock \/ lg_reset \/ lg_session
  \/ logout_user \/ validate_session_token \/ Tick
AuthSpec == AuthInit /\ [][AuthNext]_vars

\* the calls of one editor, one after the other
EditNext ==
  \/ api_create_story \/ api_create_chapter \/ api_delete_chapter
  \/ api_create_scene \/ api_delete_scene
  \/ api_create_choice \/ api_update_choice \/ api_import_story
EditSpec == EditInit /\ [][EditNext]_vars

\* register_user calls of several clients at once, one Database call per step
RegNext ==
  \E p \in Procs :
    register_user(p) \/ rg_username(p) \/ rg_email(p) \/ rg_create(p) \/ rg_get(p)
RegSpec == RegInit /\ [][RegNext]_vars

\* ------------------------------------------------------------ properties
StoredRows(p) == get_user_saves(game_saves, req[p].user_id, req[p].game_key)
StoredSave(p) == load_game(game_saves, req[p].user_id, req[p].game_key, req[p].save_slot)
SaveData(k) == load_game(game_saves, k[1], k[2], k[3])
Balance(p) == diamonds[req[p].user_id]
Requested(p) == get_choice_by_id(req[p].choice_id)

\* make_choice returns in this step
Returns(p) == ret[p].mc = "none" /\ ret'[p].mc # "none"
\* the handler of the request sends its reply in this step
Replies(p) == pc[p] # "done" /\ pc'[p] = "done"

\* C1: the diamonds balance of every user is at least 0 in every reachable state,
\* whatever the interleaving of purchase_game and make_choice requests.
C1_CurrencyFloor == \A u \in Users : diamonds[u] >= 0

\* a debit that would have made the balance negative was refused
C1_Witness ==
  \E p \in Procs : /\ debited[p] = "refused"
                   /\ \E q \in Procs \ {p} : debited[q] = "ok" /\ req[q].user_id = req[p].user_id

\* C2: make_choice on a premium choice that costs more than the user's balance
\* returns failure for lack of diamonds and leaves the balance and the stored save
\* as they were.
C2_InsufficientRejected ==
  [][\A p \in Procs :
       (/\ Returns(p)
        /\ \E c \in Requested(p) : c.premium /\ c.diamonds_cost > pre[p].diamonds)
       => /\ ret'[p].mc = "fail"
          /\ ret'[p].message = "insufficient_diamonds"
          /\ Balance(p)' = pre[p].diamonds
          /\ StoredSave(p)' = pre[p].saves]_vars

\* C3: when make_choice returns failure, the balance and the stored save are
\* exactly as before the call.
C3_AllOrNothing ==
  [][\A p \in Procs :
       (Returns(p) /\ ret'[p].mc = "fail")
       => /\ Balance(p)' = pre[p].diamonds
          /\ StoredSave(p)' = pre[p].saves]_vars

\* the deltas of a choice id; an id that matches no choice changes no stat
DeltasOf(choice_id) ==
  LET c == get_choice_by_id(choice_id)
  IN IF c = {} THEN [affection |-> 0, trust |-> 0, passion |-> 0]
     ELSE [affection |-> Only(c).affection_change, trust |-> Only(c).trust_change,
           passion |-> Only(c).passion_change]

RECURSIVE SumDeltas(_)
SumDeltas(ids) ==
  IF ids = <<>> THEN [affection |-> 0, trust |-> 0, passion |-> 0]
  ELSE LET rest == SumDeltas(Tail(ids))
           d == DeltasOf(Head(ids))
       IN [affection |-> d.affection + rest.affection, trust |-> d.trust + rest.trust,
           passion |-> d.passion + rest.passion]

\* C4: with requests served one after the other, the stats of every stored save are
\* the sums of the deltas of the choices that make_choice applied to it since the
\* save was created, with no clamping.
C4_EffectAccumulation ==
  \A k \in SaveKeys : \A s \in SaveData(k) : s.stats = SumDeltas(applied[k])

\* two choices applied to one save, with a sum below 0
C4_Witness ==
  \E k \in SaveKeys : /\ Len(applied[k]) >= 2
                      /\ \E s \in SaveData(k) : s.stats.affection < 0 /\ s.stats.trust > 0

\* C5: a make_choice that returns success for a premium choice of cost c > 0 has
\* lowered the balance by exactly c, and one for a non-premium choice has left the
\* balance as it was.
C5_ExactDebit ==
  [][\A p \in Procs :
       (Returns(p) /\ ret'[p].mc = "ok")
       => \A c \in Requested(p) :
            /\ (c.premium /\ c.diamonds_cost > 0)
                 => Balance(p)' = pre[p].diamonds - c.diamonds_cost
            /\ ~c.premium => Balance(p)' = pre[p].diamonds]_vars

\* chapter_number and scene_number of the scene with this id, when both rows exist
PointerOf(scene_id) ==
  {[chapter |-> ch.chapter_number, scene |-> sc.scene_number] :
     <<sc, ch>> \in {x \in scenes \X chapters : x[1].id = scene_id /\ x[2].id = x[1].chapter_id}}

\* C6: after a successful POST /api/games/<key>/choice for a choice whose
\* next_scene_id is S, the stored save points at S by (chapter_number, scene_number)
\* and the story data of the reply is that of S.
C6_PointerIsDestination ==
  [][\A p \in Procs :
       (Replies(p) /\ req[p].op = "choice" /\ ret'[p].status = 200)
       => \A c \in Requested(p) :
            c.next_scene_id # NULL
            => /\ \A s \in StoredSave(p)' :
                    [chapter |-> s.chapter, scene |-> s.scene] \in PointerOf(c.next_scene_id)
               /\ ret'[p].story = c.next_scene_id]_vars

IsPrefix(a, b) == Len(a) <= Len(b) /\ SubSeq(b, 1, Len(a)) = a

\* C7: the choice history of a save is append-only: no step removes or rewrites
\* recorded entries, and a make_choice that returns success has appended exactly one.
C7_HistoryAppendOnly ==
  [][/\ \A k \in SaveKeys : \A old \in SaveData(k) :
          \E new \in SaveData(k)' : IsPrefix(old.choices, new.choices)
     /\ \A p \in Procs :
          (Returns(p) /\ ret'[p].mc = "ok")
          => \A new \in StoredSave(p)' :
               Len(new.choices) = 1 + (IF pre[p].saves = {} THEN 0
                                       ELSE Len(Only(pre[p].saves).choices))]_vars

\* C8: make_choice with a choice_id that matches no choice fails as not found and
\* leaves the stored save and the balance as they were.
C8_UnknownChoiceRejected ==
  [][\A p \in Procs :
       (Returns(p) /\ Requested(p) = {})
       => /\ ret'[p].mc = "fail"
          /\ ret'[p].message = "choice_not_found"
          /\ Balance(p)' = pre[p].diamonds
          /\ StoredSave(p)' = pre[p].saves]_vars

\* the stats make_choice starts from: those of the stored save, or of a new save
StatsBefore(p) ==
  IF pre[p].saves = {} THEN InitialSave.stats ELSE Only(pre[p].saves).stats

\* C9: make_choice on a choice whose unlock requirement the save's stats do not
\* meet returns failure and applies no effect: stats, pointer and balance stay.
C9_LockedChoiceRejected ==
  [][\A p \in Procs :
       (/\ Returns(p)
        /\ \E c \in Requested(p) :
             c.unlock_condition # NULL /\ StatsBefore(p).affection < c.unlock_condition)
       => /\ ret'[p].mc = "fail"
          /\ Balance(p)' = pre[p].diamonds
          /\ \A s \in StoredSave(p)' :
               /\ s.stats = StatsBefore(p)
               /\ \A o \in pre[p].saves : s.chapter = o.chapter /\ s.scene = o.scene]_vars

\* C10: at most one row of game_saves per (user, game, slot); the save that
\* load_game_state writes for a game without a save is the only row of its key and is
\* seeded at chapter 1, scene 1, stats 0, empty history; a load that finds a save
\* returns it and writes nothing.
C10_LazySave ==
  /\ [](\A r1, r2 \in game_saves :
          (r1.user_id = r2.user_id /\ r1.game_name = r2.game_name
             /\ r1.save_slot = r2.save_slot) => r1 = r2)
  /\ [][\A p \in Procs :
          /\ (pc[p] \in {"ld_create", "mc_create"} /\ pc'[p] # pc[p] /\ success'[p])
               => /\ StoredSave(p)' = {InitialSave}
                  /\ Cardinality(StoredRows(p)') = 1
                  /\ game_state'[p] = InitialSave
          /\ (pc[p] \in {"ld_load", "mc_load"} /\ pc'[p] # pc[p] /\ StoredSave(p) # {})
               => /\ game_saves' = game_saves
                  /\ StoredSave(p) = {game_state'[p]}
                  /\ pc'[p] \notin {"ld_create", "mc_create"}]_vars

\* two first loads of one game ran concurrently and both wrote the new save
C10_Witness ==
  \E p, q \in Procs :
    /\ p # q /\ req[p].op = "load" /\ req[q].op = "load"
    /\ SaveKey(p) = SaveKey(q)
    /\ pre[p].saves = {} /\ pre[q].saves = {}
    /\ pc[p] = "done" /\ pc[q] = "done" /\ success[p] /\ success[q]
    /\ StoredSave(p) = {InitialSave}

\* the save the request found: the stored one, or the one created for it
PreviousSave(p) == IF pre[p].saves = {} THEN InitialSave ELSE Only(pre[p].saves)

\* C11: two make_choice requests of one user for the same premium choice that are
\* served concurrently are both debited: the debit of the second is decided by the
\* balance alone, also while the first, already debited, has not stored its save, so
\* a balance of at least 2 x diamonds_cost drops by 2 x diamonds_cost.
C11_DoubleDebit ==
  [][\A p, q \in Procs :
       (/\ p # q
        /\ req[p].op = "choice" /\ req[q] = req[p]
        /\ debited[q] = "ok" /\ pc[q] # "done"
        /\ pc[p] = "mc_debit" /\ pc'[p] # "mc_debit")
       => \E c \in Requested(p) :
            IF Balance(p) >= c.diamonds_cost
            THEN debited'[p] = "ok" /\ Balance(p)' = Balance(p) - c.diamonds_cost
            ELSE debited'[p] = "refused" /\ Balance(p)' = Balance(p)]_vars

\* both requests were debited before either stored its save
C11_Witness ==
  \E p, q \in Procs :
    /\ p < q /\ req[p].op = "choice" /\ req[q] = req[p]
    /\ debited[p] = "ok" /\ debited[q] = "ok"
    /\ pc[p] = "mc_save" /\ pc[q] = "mc_save"
    /\ \E c \in Requested(p) : /\ pre[p].diamonds >= 2 * c.diamonds_cost
                                /\ Balance(p) = pre[p].diamonds - 2 * c.diamonds_cost

\* C16: a successful POST of a choice that has neither next_scene_id nor
\* next_chapter_id leaves the stored save one scene further in the same chapter:
\* stored scene = previous scene + 1, stored chapter unchanged.
C16_LinearAdvance ==
  [][\A p \in Procs :
       (/\ Replies(p) /\ req[p].op = "choice" /\ ret'[p].status = 200
        /\ \E c \in Requested(p) : c.next_scene_id = NULL /\ c.next_chapter_id = NULL)
       => \E s \in StoredSave(p)' : /\ s.scene = PreviousSave(p).scene + 1
                                    /\ s.chapter = PreviousSave(p).chapter]_vars

\* the story of the requested key
RequestedStory(p) == get_story_by_key(req[p].game_key)

\* C15: can_access_game and purchase_game with a key that matches no story do not
\* raise, report failure (not accessible, purchase refused) and change neither the
\* balance nor the stored save, with or without saves under that key.
C15_UnknownKeyRejected ==
  [][\A p \in Procs :
       (Replies(p) /\ req[p].op \in {"access", "purchase"} /\ RequestedStory(p) = {})
       => /\ ret'[p].status # 500
          /\ req[p].op = "access" => ~ret'[p].accessible
          /\ req[p].op = "purchase" => ret'[p].status = 400
          /\ Balance(p)' = pre[p].diamonds
          /\ StoredSave(p)' = pre[p].saves]_vars

\* C20: for a key that matches a story, can_access_game answers
\* accessible = is_published and (not premium or the user has a save of the key or
\* diamonds >= diamonds_cost), and the check changes neither users nor saves.
C20_AccessRule ==
  [][\A p \in Procs :
       /\ (Replies(p) /\ req[p].op = "access" /\ RequestedStory(p) # {})
          => LET story == Only(RequestedStory(p))
             IN /\ ret'[p].status = 200
                /\ ret'[p].accessible =
                     (/\ story.is_published
                      /\ \/ ~story.premium
                         \/ StoredRows(p) # {}
                         \/ Balance(p) >= story.diamonds_cost)
       /\ req[p].op = "access" /\ pc[p] # "done" => UNCHANGED <<diamonds, game_saves>>]_vars

\* a premium published story without a save, refused for lack of diamonds after a
\* purchase of another story used them up
C20_Witness ==
  \E p \in Procs :
    /\ pc[p] = "done" /\ req[p].op = "access" /\ nreq > 1
    /\ \E story \in RequestedStory(p) : /\ story.premium /\ story.is_published
                                          /\ Balance(p) < story.diamonds_cost
                                          /\ Balance(p) > 0
    /\ StoredRows(p) = {}
    /\ ~ret[p].accessible

\* the account of user u is locked
AccountLocked(u) == locked_until[u] # NULL /\ now < locked_until[u]
\* the call of the authentication request returns in this step
AuthReturns == lg_pc' = "done" /\ (lg_pc # "done" \/ nauth' = nauth + 1)
\* a login_user call for the account of user u starts in this step
LoginStarts(u) ==
  /\ nauth' = nauth + 1
  /\ lg_req'.op = "login"
  /\ \E a \in users : a.id = u /\ lg_req'.identifier \in {a.username, a.email}

\* C17: the account becomes locked, for LOCKOUT_TIME from then, exactly when a
\* wrong-password attempt brings failed_login_attempts to MAX_LOGIN_ATTEMPTS or more;
\* with fewer failures stored no lock is stored; and at most MAX_LOGIN_ATTEMPTS
\* wrong-password checks follow the last successful login without a lock being set.
C17_Lockout ==
  /\ [](\A u \in Users : failed_login_attempts[u] < MAX_LOGIN_ATTEMPTS => locked_until[u] = NULL)
  /\ [](unlocked_checks <= MAX_LOGIN_ATTEMPTS)
  /\ [][\A u \in Users :
          /\ (AuthReturns /\ lg_pc \in {"lg_attempts", "lg_lock"} /\ lg_user.id = u)
             => /\ failed_login_attempts'[u] = lg_pre.users[u].failed_login_attempts + 1
                /\ AccountLocked(u)' <=> failed_login_attempts'[u] >= MAX_LOGIN_ATTEMPTS
                /\ AccountLocked(u)' => locked_until'[u] = now' + LOCKOUT_TIME
          /\ (locked_until'[u] # locked_until[u] /\ locked_until'[u] # NULL)
             => /\ lg_pc = "lg_lock" /\ lg_user.id = u
                /\ failed_login_attempts'[u] >= MAX_LOGIN_ATTEMPTS]_vars

\* the fifth wrong password in a row has just locked the account
C17_Witness ==
  /\ lg_pc = "done" /\ lg_req.op = "login" /\ lg_req.password = "wrong"
  /\ \E u \in Users : /\ lg_pre.users[u].failed_login_attempts = MAX_LOGIN_ATTEMPTS - 1
                      /\ failed_login_attempts[u] = MAX_LOGIN_ATTEMPTS
                      /\ locked_until[u] = now + LOCKOUT_TIME

\* C18: a login_user call made while the account is locked fails, whatever the
\* password, creates no session and leaves failed_login_attempts, locked_until and
\* last_login as they are.
C18_LockedLoginFails ==
  [][\A u \in Users :
       (LoginStarts(u) /\ AccountLocked(u))
       => /\ lg_pc' = "done"
          /\ ~lg_ret'.success
          /\ UNCHANGED <<failed_login_attempts, locked_until, last_login, sessions>>]_vars

\* the right password was refused, some minutes into the lock
C18_Witness ==
  /\ lg_pc = "done" /\ lg_req.op = "login" /\ lg_req.password = "right"
  /\ ~lg_ret.success
  /\ \E u \in Users : /\ AccountLocked(u)
                      /\ now > locked_until[u] - LOCKOUT_TIME
                      /\ lg_user.id = u

\* C19: a login_user call that returns success has set failed_login_attempts to 0,
\* cleared locked_until and added exactly one session, of the returned token; and
\* validate_session_token accepts a token exactly when a login returned it, it has
\* not expired, and logout_user was not called with it.
C19_LoginSession ==
  [][/\ (AuthReturns /\ lg_req'.op = "login" /\ lg_ret'.success)
        => /\ failed_login_attempts'[lg_user.id] = 0
           /\ locked_until'[lg_user.id] = NULL
           /\ \E s \in sessions' : /\ s \notin lg_pre.sessions
                                   /\ sessions' = lg_pre.sessions \cup {s}
                                   /\ s.session_token = lg_ret'.token
                                   /\ s.user_id = lg_user.id
     /\ (AuthReturns /\ lg_req'.op = "validate")
        => (lg_ret'.success
            <=> /\ lg_req'.token \notin logged_out
                /\ \E i \in issued : /\ i.session_token = lg_req'.token
                                     /\ now < i.expires_at)]_vars

\* a token that has not expired is refused after logout_user, while the token of
\* another login is still stored
C19_Witness ==
  /\ lg_pc = "done" /\ lg_req.op = "validate" /\ ~lg_ret.success
  /\ lg_req.token \in logged_out
  /\ \E i \in issued : i.session_token = lg_req.token /\ now < i.expires_at
  /\ sessions # {}
  /\ \A u \in Users : failed_login_attempts[u] = 0 /\ locked_until[u] = NULL

\* the chapters of story s and the scenes in them
ChaptersOf(s) == {ch \in content.chapters : ch.story_id = s.id}
ScenesOf(s) == {sc \in content.scenes : \E ch \in ChaptersOf(s) : ch.id = sc.chapter_id}

\* C12: no two chapters of a story share a chapter_number and no two scenes of a
\* chapter share a scene_number, whatever was created or imported; a create_chapter
\* or create_scene call that would duplicate a number returns None and leaves every
\* table, the counters of the story included, as it was.
C12_UniqueNumbers ==
  /\ [](/\ \A a, b \in content.chapters :
             (a.story_id = b.story_id /\ a.chapter_number = b.chapter_number) => a = b
        /\ \A a, b \in content.scenes :
             (a.chapter_id = b.chapter_id /\ a.scene_number = b.scene_number) => a = b
        /\ \A ch \in content.chapters :
             create_chapter(content, ch.story_id, ch.chapter_number)
               = [content |-> content, id |-> NULL]
        /\ \A sc \in content.scenes :
             create_scene(content, sc.chapter_id, sc.scene_number)
               = [content |-> content, id |-> NULL])
  /\ [][(refused' /\ ~refused) => content' = content]_vars

\* a create call was refused in a story that has a chapter with a scene
C12_Witness ==
  /\ refused
  /\ \E s \in content.stories :
       /\ Cardinality(ChaptersOf(s)) = 1 /\ s.chapters_count = 1
       /\ Cardinality(ScenesOf(s)) = 1 /\ s.scenes_count = 1

\* C13: every stored choice with a next_scene_id points to a stored scene in a
\* chapter of the story that the choice's own scene belongs to.
C13_DestinationInStory ==
  \A x \in content.choices :
    x.next_scene_id # NULL
    => \E dest, own \in content.scenes :
         /\ dest.id = x.next_scene_id
         /\ own.id = x.scene_id
         /\ \E a, b \in content.chapters :
              a.id = dest.chapter_id /\ b.id = own.chapter_id /\ a.story_id = b.story_id

\* C14: chapters_count of every story is the number of its chapters and scenes_count
\* the number of scenes in those chapters.
C14_CountersAccurate ==
  \A s \in content.stories :
    /\ s.chapters_count = Cardinality(ChaptersOf(s))
    /\ s.scenes_count = Cardinality(ScenesOf(s))

\* C21: purchase_game of a story that is not published fails and changes nothing: the
\* balance and the stored save are as before the call.
C21_UnpublishedNotSold ==
  [][\A p \in Procs :
       (/\ Replies(p) /\ req[p].op = "purchase"
        /\ \E story \in RequestedStory(p) : ~story.is_published)
       => /\ ret'[p].status = 400
          /\ Balance(p)' = pre[p].diamonds
          /\ StoredSave(p)' = pre[p].saves]_vars

\* C22: with requests served one after the other, a purchase_game whose debit was
\* accepted and whose save was not written returns failure with the balance as before
\* the call; and a purchase_game that returns success has lowered the balance by
\* exactly diamonds_cost of the story and a save is stored.
C22_RefundOrCharge ==
  [][\A p \in Procs :
       (Replies(p) /\ req[p].op = "purchase" /\ RequestedStory(p) # {})
       => /\ (debited'[p] = "ok" /\ ~success'[p])
             => /\ ret'[p].status = 400
                /\ Balance(p)' = pre[p].diamonds
          /\ ret'[p].status = 200
             => /\ Balance(p)' = pre[p].diamonds - Only(RequestedStory(p)).diamonds_cost
                /\ StoredSave(p)' # {}]_vars

\* a purchase was debited, its save failed, and the diamonds are back
C22_Witness ==
  \E p \in Procs :
    /\ pc[p] = "done" /\ req[p].op = "purchase"
    /\ debited[p] = "ok" /\ ~success[p]
    /\ ret[p].status = 400
    /\ \E story \in RequestedStory(p) : story.diamonds_cost > 0
    /\ Balance(p) = pre[p].diamonds

\* C23: delete_chapter and delete_scene return True exactly for the id of a stored
\* row, which the call deletes, and False for an id that matches no row.
C23_DeleteReports ==
  /\ \A id \in ChapterIds :
       LET r == delete_chapter(content, id)
       IN /\ r.ok <=> \E ch \in content.chapters : ch.id = id
          /\ \A ch \in r.content.chapters : ch.id # id
  /\ \A id \in SceneIds :
       LET r == delete_scene(content, id)
       IN /\ r.ok <=> \E sc \in content.scenes : sc.id = id
          /\ \A sc \in r.content.scenes : sc.id # id

\* C24: in every reachable state no two rows of table users share a username or an
\* email; of two register_user calls with the same username or email, however their
\* steps interleave, at most one returns success; a call that returns success returns
\* a stored row with its username and email; and every row a register_user call
\* inserts has 100 diamonds and is_admin false.
C24_UniqueRegistration ==
  /\ [](\A a, b \in user_table :
          (a.username = b.username \/ a.email = b.email) => a = b)
  /\ [](\A p, q \in Procs :
          (/\ p # q /\ rg_pc[p] = "done" /\ rg_pc[q] = "done"
           /\ \/ rg_req[p].username = rg_req[q].username
              \/ rg_req[p].email = rg_req[q].email)
          => ~(rg_ret[p].ok /\ rg_ret[q].ok))
  /\ [](\A p \in Procs :
          (rg_pc[p] = "done" /\ rg_ret[p].ok)
          => \E u \in user_table :
               /\ rg_ret[p].user = {u}
               /\ u.username = rg_req[p].username /\ u.email = rg_req[p].email)
  /\ [][\A u \in user_table' \ user_table :
          u.diamonds = 100 /\ ~u.is_admin]_vars

\* two calls with the same username (or email) both passed the existence checks; one
\* inserted and returned success, the INSERT of the other was refused
C24_Witness ==
  \E p, q \in Procs :
    /\ p # q /\ rg_pc[p] = "done" /\ rg_pc[q] = "done"
    /\ \/ rg_req[p].username = rg_req[q].username
       \/ rg_req[p].email = rg_req[q].email
    /\ rg_ret[p].ok /\ rg_ret[q].message = "create_error"
    /\ \E u \in user_table : u.id = rg_id[p] /\ u.diamonds = 100 /\ ~u.is_admin

====
